---- MODULE Spec2Model ----
(***************************************************************************)
(* VisionLab-Pro renderer (src/unnamed/part_000): the multi-image batch    *)
(* pipeline.  The state is the renderer's module-level variables, the      *)
(* image objects they reference, the controls panel, the toasts shown by   *)
(* the latest handler, and the position of every started run               *)
(* (processSelectedImages is an async function: it is suspended at each    *)
(* remote call and user events are handled meanwhile).  The Electron host  *)
(* shell (src/main.js) is a second state machine over the variable `host`. *)
(***************************************************************************)
EXTENDS Integers, Sequences, FiniteSets, TLC

\* ------------------------------------------------------------------ bounds
\* Files submitted by one load.
MaxFiles == 2
\* Target images of all the runs of a behaviour together (two runs on one
\* image, or one run on two).
MaxTargets == 2

\* Loads pending at the same time.
MaxPending == 2

\* Windows the host shell creates in one behaviour.
MaxWindows == 3

\* Files submitted by one load where a run leaves an image aside (two targets
\* and an image that is none).
MaxBatch == 3

\* ------------------------------------------------------------- catalog
\* JavaScript null / undefined / "no value".
NULL == "null"

\* Operations that cannot be queued.
excludedFromQueue == {"dimensions", "compare-dimensions", "rgb-channels", "hsv-convert"}

\* The queueable operation buttons modelled (two of the catalog's).
Composable == {"rotate", "flip"}

Operations == Composable \cup excludedFromQueue

\* The operation buttons the user clicks in Spec: the queueable ones and the
\* exclusive one that has a precondition (selectOperation handles the other
\* exclusive operations as it handles this one, and a run that applies one of
\* them alone goes the way of a run that applies rotate alone).
Buttons == Composable \cup {"compare-dimensions"}

\* Slots for suspended runs; Spec starts a run only when none is in flight.
RunIds == {1, 2}

\* Image objects: those of the registry plus one an in-flight run still holds.
ObjIds == 1..(MaxFiles + Cardinality(RunIds))

\* --------------------------------------------------------------- data
\* A data URL "data:<mime>;base64,<payload>".  The payload is what the bytes
\* are: file `orig` after the remote operations `ops`.
NoPayload == [orig |-> 0, ops |-> << >>]

NullUrl == [mime |-> NULL, b64 |-> NoPayload]

DataUrl(mime, payload) == [mime |-> mime, b64 |-> payload]

\* image.src.split(',')[1]: the payload without the data-URI prefix.
SplitComma(url) == url.b64

\* a || b on data URLs (null is falsy).
OrElse(a, b) == IF a # NullUrl THEN a ELSE b

\* The remote service's answer to POST /api/<op> on a payload.
RemoteApply(payload, op) == [orig |-> payload.orig, ops |-> Append(payload.ops, op)]

\* The separator of Array.prototype.join in the chain label.
ARROW == " → "

RECURSIVE JoinFrom(_, _)
JoinFrom(seq, i) ==
    IF i > Len(seq) THEN ""
    ELSE IF i = Len(seq) THEN seq[i]
    ELSE seq[i] \o ARROW \o JoinFrom(seq, i + 1)

\* operationsApplied.join(' → ')
Join(seq) == JoinFrom(seq, 1)

\* array.filter(x => x !== v)
RECURSIVE FilterOut(_, _)
FilterOut(seq, v) ==
    IF seq = << >> THEN << >>
    ELSE IF Head(seq) = v THEN FilterOut(Tail(seq), v)
    ELSE << Head(seq) >> \o FilterOut(Tail(seq), v)

\* array.includes(v)
Includes(seq, v) == \E i \in 1..Len(seq) : seq[i] = v

\* The object loadSingleImage builds for file `id`.
NewImage(id) ==
    [alloc |-> TRUE, name |-> id,
     src |-> DataUrl("file", [orig |-> id, ops |-> << >>]),
     processedSrc |-> NullUrl, selected |-> FALSE, processing |-> FALSE,
     processed |-> FALSE, lastOperation |-> NULL, grayscaleData |-> NoPayload]

\* A slot of the object store holding no image.
FreeImage ==
    [alloc |-> FALSE, name |-> 0, src |-> NullUrl, processedSrc |-> NullUrl,
     selected |-> FALSE, processing |-> FALSE, processed |-> FALSE,
     lastOperation |-> NULL, grayscaleData |-> NoPayload]

\* showMessage(text, type): `kind` is the text's template, the rest its holes.
Msg(type, kind, img, op, n, m) ==
    [type |-> type, kind |-> kind, img |-> img, op |-> op, n |-> n, m |-> m]

\* What a run commits to an image.
Committed(image) ==
    [processedSrc |-> image.processedSrc, processed |-> image.processed,
     lastOperation |-> image.lastOperation]

NoCommit == [processedSrc |-> NullUrl, processed |-> FALSE, lastOperation |-> NULL]

\* The locals of one processSelectedImages call.
IdleRun ==
    [pc |-> "idle", indices |-> << >>, idxAlias |-> FALSE, pos |-> 1, total |-> 0,
     processed |-> 0, image |-> 0, multi |-> FALSE, ops |-> << >>,
     opsAlias |-> FALSE, opPos |-> 0, currentSrc |-> NullUrl,
     operationsApplied |-> << >>, callOp |-> NULL, callInput |-> NoPayload,
     callTarget |-> 0,
     \* history: the images before the run and the current one when the run
     \* reached it, the remote calls made for it, the images whose chain
     \* succeeded (kept after the run, until the next one starts)
     before |-> [o \in ObjIds |-> NoCommit], snap |-> NoCommit,
     calls |-> << >>, succeeded |-> 0,
     \* history: the images the target positions referred to at the start
     targets |-> {}]

\* The host shell before the application is launched: mainWindow and
\* backendProcess are unset (0), no window is open and no process runs.
HostOff ==
    [app |-> "off", platform |-> NULL, mainWindow |-> 0, windows |-> {},
     backendProcess |-> NULL, backendRunning |-> FALSE, created |-> 0,
     sent |-> NULL, development |-> FALSE, devTools |-> FALSE]

VARIABLES
    loadedImages,          \* array of image objects (their ids in `heap`)
    heap,                  \* the image objects
    selectedImageIndices,  \* array of 0-based positions
    operationQueue,
    currentOperation,
    controlsActive,        \* #controlsPanel has class "active"
    isProcessing,
    pendingLoads,          \* loads whose Promise.all has not settled
    runs,                  \* the suspended processSelectedImages calls
    targetsStarted,        \* targets of the runs started so far (bounds the model)
    messages,              \* the toasts shown by the latest handler
    rotateSlider,          \* the value of #rotateSlider (0: #controlsContent
                           \* holds no such element)
    lastParameters,        \* window.lastParameters.rotate.angle (0: not saved)
    paramTimers,           \* pending loadParameters timers: the angles they hold
    userAngle,             \* history: the angle the user last set (0: never)
    activeButtons,         \* the operation buttons that have class "active"
    host                   \* the host shell (main.js): app, windows, backend

paramVars == << rotateSlider, lastParameters, paramTimers, userAngle >>

vars == << loadedImages, heap, selectedImageIndices, operationQueue,
           currentOperation, controlsActive, isProcessing, pendingLoads,
           runs, targetsStarted, messages, paramVars, activeButtons, host >>

Init ==
    /\ loadedImages = << >>
    /\ heap = [o \in ObjIds |-> FreeImage]
    /\ selectedImageIndices = << >>
    /\ operationQueue = << >>
    /\ currentOperation = NULL
    /\ controlsActive = FALSE
    /\ isProcessing = FALSE
    /\ pendingLoads = << >>
    /\ runs = [r \in RunIds |-> IdleRun]
    /\ targetsStarted = 0
    /\ messages = << >>
    /\ rotateSlider = 0
    /\ lastParameters = 0
    /\ paramTimers = {}
    /\ userAngle = 0
    /\ activeButtons = {}
    /\ host = HostOff

\* A load whose Promise.all has not settled: its number of files and, as
\* history, the registry and the selection its handler found and whether a
\* later load has been submitted since.
PendingLoad(n, loaded, selected) ==
    [n |-> n, loaded |-> loaded, selected |-> selected, superseded |-> FALSE]

\* --------------------------------------------------------- object store
Range(seq) == {seq[i] : i \in 1..Len(seq)}

\* The images the positions `selected` of `loaded` refer to.
SelectedImages(loaded, selected) ==
    {loaded[selected[k] + 1] : k \in {j \in 1..Len(selected) : selected[j] < Len(loaded)}}

\* Objects no array and no run references are collected.
Collect(h, loaded, rs) ==
    [o \in ObjIds |->
        IF o \in Range(loaded) \/ \E r \in RunIds : rs[r].pc # "idle" /\ rs[r].image = o
        THEN h[o] ELSE FreeImage]

\* The k lowest free slots, in order.
RECURSIVE FreshIds(_, _, _)
FreshIds(used, k, from) ==
    IF k = 0 THEN << >>
    ELSE IF from \in used THEN FreshIds(used, k, from + 1)
    ELSE << from >> \o FreshIds(used \cup {from}, k - 1, from + 1)

\* A microtask is pending: no user event is dispatched before it has run.
MicrotaskPending == \E r \in RunIds : runs[r].pc = "resolved"

\* Reassigning a global to a new array ends the aliasing of the old one.
Unalias(rs, idx, ops) ==
    [r \in RunIds |->
        [rs[r] EXCEPT !.idxAlias = IF idx THEN FALSE ELSE @,
                      !.opsAlias = IF ops THEN FALSE ELSE @]]

\* ------------------------------------------------------ parameters
\* The value attribute of #rotateSlider in the markup of showControls, and the
\* fallback of addOperationParameters.
DefaultAngle == 45

\* The angles the user sets the slider to (one that is not the default).
Angles == {90}

\* showControls(operation): the panel's content is replaced, its controls are
\* new elements with the values of the markup.
ShowControls(op) == IF op = "rotate" THEN DefaultAngle ELSE 0

\* loadParameters(operation), called after showControls: when parameters are
\* saved for the operation a timer is set that holds them.
LoadParameters(op, saved, timers) ==
    IF op = "rotate" /\ saved # 0 THEN timers \cup {saved} ELSE timers

\* saveParameters(): the slider's value is stored under the active operation
\* (only the entry of rotate is modelled).
SaveParameters(current, slider, saved) ==
    IF current = "rotate" THEN slider ELSE saved

\* addOperationParameters: document.getElementById('rotateSlider')?.value || 45
\* (0: the operation sends no angle).
FormAngle(op, slider) ==
    IF op # "rotate" THEN 0
    ELSE IF slider # 0 THEN slider
    ELSE DefaultAngle

\* ------------------------------------------------------ operation queue
\* The operation text in a toast: operation.replace(/-/g, ' ') is one-to-one
\* on the catalog, so the toast carries the operation itself.
SelectedMsg(op) == Msg("info", "selected (single operation only)", 0, op, 0, 0)

\* Variant: the exclusive branch keeps the queue it finds.
SelectResultKeepsQueue(queue, current, op) ==
    IF op \in excludedFromQueue
    THEN [queue |-> queue, current |-> op, shown |-> TRUE, fresh |-> FALSE,
          msg |-> SelectedMsg(op)]
    ELSE LET q == IF Includes(queue, op) THEN FilterOut(queue, op)
                  ELSE Append(queue, op)
         IN [queue |-> q,
             current |-> IF Len(q) > 0 THEN q[Len(q)] ELSE NULL,
             shown |-> Len(q) > 0,
             fresh |-> Includes(queue, op),
             msg |-> IF Includes(queue, op)
                     THEN Msg("info", "Removed from operation queue", 0, op, 0, 0)
                     ELSE Msg("success", "Added to operation queue", 0, op, Len(q), 0)]

\* Variant: every operation is queued, exclusive or not.
SelectResultAllQueued(queue, current, op) ==
    LET q == IF Includes(queue, op) THEN FilterOut(queue, op)
             ELSE Append(queue, op)
    IN [queue |-> q,
        current |-> IF Len(q) > 0 THEN q[Len(q)] ELSE NULL,
        shown |-> Len(q) > 0,
        fresh |-> Includes(queue, op),
        msg |-> SelectedMsg(op)]

\* selectOperation past its guard: the new queue, the new active operation,
\* whether showControls ran, whether the queue is a new array, and the toast.
SelectResult(queue, current, op) ==
    IF op \in excludedFromQueue
    THEN [queue |-> << >>, current |-> op, shown |-> TRUE, fresh |-> TRUE,
          msg |-> SelectedMsg(op)]
    ELSE LET q == IF Includes(queue, op) THEN FilterOut(queue, op)
                  ELSE Append(queue, op)
         IN [queue |-> q,
             current |-> IF Len(q) > 0 THEN q[Len(q)] ELSE NULL,
             shown |-> Len(q) > 0,
             fresh |-> Includes(queue, op),
             msg |-> IF Includes(queue, op)
                     THEN Msg("info", "Removed from operation queue", 0, op, 0, 0)
                     ELSE Msg("success", "Added to operation queue", 0, op, Len(q), 0)]

\* selectOperation as a whole: without images it only shows an error.
SelectOutcome(loaded, queue, current, op) ==
    IF Len(loaded) = 0
    THEN [queue |-> queue, current |-> current, shown |-> FALSE, fresh |-> FALSE,
          msg |-> Msg("error", "Please load images first!", 0, NULL, 0, 0)]
    ELSE SelectResult(queue, current, op)

\* A push on the array a run iterates is seen by the run; a new array is not.
Requeue(rs, q, fresh) ==
    [r \in RunIds |->
        IF rs[r].opsAlias
        THEN IF fresh THEN [rs[r] EXCEPT !.opsAlias = FALSE]
             ELSE [rs[r] EXCEPT !.ops = q]
        ELSE rs[r]]

\* The buttons with class "active" after selectOperation(op, button): an
\* exclusive operation's button becomes the only one, a queueable operation's
\* button follows its membership of the queue.
ButtonsAfterSelect(active, loaded, queue, op) ==
    IF Len(loaded) = 0 THEN active
    ELSE IF op \in excludedFromQueue THEN {op}
    ELSE IF Includes(queue, op) THEN active \ {op}
    ELSE active \cup {op}

\* The buttons with class "active" after removeFromQueue(op): closeControls
\* clears them all when the queue becomes empty.
ButtonsAfterRemove(active, queue, op) ==
    IF Len(FilterOut(queue, op)) = 0 THEN {} ELSE active \ {op}

\* A click on an operation button.
SelectOperation(op) ==
    /\ ~MicrotaskPending
    /\ LET res == SelectOutcome(loadedImages, operationQueue, currentOperation, op) IN
        /\ operationQueue' = res.queue
        /\ currentOperation' = res.current
        /\ controlsActive' = (controlsActive \/ res.shown)
        /\ runs' = IF Len(loadedImages) = 0 THEN runs
                   ELSE Requeue(runs, res.queue, res.fresh)
        /\ messages' = << res.msg >>
        /\ activeButtons' = ButtonsAfterSelect(activeButtons, loadedImages, operationQueue, op)
        /\ rotateSlider' = IF res.shown THEN ShowControls(res.current)
                           ELSE rotateSlider
        /\ paramTimers' = IF res.shown
                          THEN LoadParameters(res.current, lastParameters, paramTimers)
                          ELSE paramTimers
    /\ UNCHANGED << host, loadedImages, heap, selectedImageIndices, isProcessing,
                    pendingLoads, targetsStarted, lastParameters, userAngle >>

\* The user moves #rotateSlider to v: the input event saves the parameters.
SetRotateSlider(v) ==
    /\ ~MicrotaskPending
    /\ controlsActive
    /\ rotateSlider # 0
    /\ v # rotateSlider
    /\ rotateSlider' = v
    /\ lastParameters' = SaveParameters(currentOperation, v, lastParameters)
    /\ userAngle' = v
    /\ messages' = << >>
    /\ UNCHANGED << host, activeButtons, loadedImages, heap, selectedImageIndices, operationQueue,
                    currentOperation, controlsActive, isProcessing, pendingLoads,
                    runs, targetsStarted, paramTimers >>

\* A timer of loadParameters fires: the angle it holds is written to the
\* slider if there is one.
LoadParametersTimer(a) ==
    /\ ~MicrotaskPending
    /\ a \in paramTimers
    /\ paramTimers' = paramTimers \ {a}
    /\ rotateSlider' = IF rotateSlider # 0 THEN a ELSE rotateSlider
    /\ messages' = << >>
    /\ UNCHANGED << host, activeButtons, loadedImages, heap, selectedImageIndices, operationQueue,
                    currentOperation, controlsActive, isProcessing, pendingLoads,
                    runs, targetsStarted, lastParameters, userAngle >>

\* closeControls: the panel's state and the active operation after it.
CloseControlsResult(current) == [controlsActive |-> FALSE, current |-> NULL]

\* removeFromQueue(op): queue, active operation, panel and toast after it.
RemoveResult(queue, current, panel, op) ==
    LET q == FilterOut(queue, op) IN
    IF Len(q) = 0
    THEN [queue |-> q, current |-> CloseControlsResult(NULL).current,
          controlsActive |-> CloseControlsResult(NULL).controlsActive,
          msg |-> Msg("info", "Operation queue cleared", 0, NULL, 0, 0)]
    ELSE [queue |-> q, current |-> q[Len(q)], controlsActive |-> TRUE,
          msg |-> Msg("info", "Removed from queue", 0, op, Len(q), 0)]

\* A click on the x of a queue item; showControls renders the items only
\* for a queue of more than one operation.
RemoveFromQueue(op) ==
    /\ ~MicrotaskPending
    /\ controlsActive
    /\ Len(operationQueue) > 1
    /\ Includes(operationQueue, op)
    /\ LET res == RemoveResult(operationQueue, currentOperation, controlsActive, op) IN
        /\ operationQueue' = res.queue
        /\ currentOperation' = res.current
        /\ controlsActive' = res.controlsActive
        /\ messages' = << res.msg >>
    /\ runs' = Unalias(runs, FALSE, TRUE)
    /\ activeButtons' = ButtonsAfterRemove(activeButtons, operationQueue, op)
    /\ UNCHANGED << host, paramVars, loadedImages, heap, selectedImageIndices, isProcessing,
                    pendingLoads, targetsStarted >>

\* A click on "Clear Queue", rendered with the queue items.
ClearOperationQueue ==
    /\ ~MicrotaskPending
    /\ controlsActive
    /\ Len(operationQueue) > 1
    /\ operationQueue' = << >>
    /\ currentOperation' = CloseControlsResult(NULL).current
    /\ controlsActive' = CloseControlsResult(NULL).controlsActive
    /\ messages' = << Msg("info", "All operations cleared from queue", 0, NULL, 0, 0) >>
    /\ runs' = Unalias(runs, FALSE, TRUE)
    /\ activeButtons' = {}
    /\ UNCHANGED << host, paramVars, loadedImages, heap, selectedImageIndices, isProcessing,
                    pendingLoads, targetsStarted >>

\* Escape while the controls panel is shown.
CloseControls ==
    /\ ~MicrotaskPending
    /\ controlsActive
    /\ controlsActive' = CloseControlsResult(currentOperation).controlsActive
    /\ currentOperation' = CloseControlsResult(currentOperation).current
    /\ messages' = << >>
    /\ activeButtons' = {}
    /\ UNCHANGED << host, paramVars, loadedImages, heap, selectedImageIndices, operationQueue,
                    isProcessing, pendingLoads, runs, targetsStarted >>

\* ------------------------------------------------------- image registry
\* A file dialog or drop of n files: the synchronous part of the handler.
\* Files are submitted while no load is pending and no run is in flight.
LoadStart(n) ==
    /\ ~MicrotaskPending
    /\ pendingLoads = << >>
    /\ \A r \in RunIds : runs[r].pc = "idle"
    /\ loadedImages' = << >>
    /\ selectedImageIndices' = << >>
    /\ heap' = Collect(heap, << >>, runs)
    /\ runs' = Unalias(runs, TRUE, FALSE)
    /\ pendingLoads' = Append(pendingLoads,
                               PendingLoad(n, loadedImages, selectedImageIndices))
    /\ messages' = << >>
    /\ UNCHANGED << host, activeButtons, paramVars, operationQueue, currentOperation, controlsActive, isProcessing,
                    targetsStarted >>

\* Promise.all resolved: every file decoded.
LoadDone ==
    /\ ~MicrotaskPending
    /\ pendingLoads # << >>
    /\ LET n == Head(pendingLoads).n
           held == {o \in ObjIds : \E r \in RunIds : runs[r].pc # "idle" /\ runs[r].image = o}
           ids == FreshIds(held, n, 1)
           h == Collect(heap, << >>, runs)
       IN /\ loadedImages' = ids
          /\ heap' = [o \in ObjIds |-> IF o \in Range(ids) THEN NewImage(o) ELSE h[o]]
          /\ messages' = << Msg("success", "Successfully loaded images!", 0, NULL, n, 0) >>
    /\ pendingLoads' = Tail(pendingLoads)
    /\ controlsActive' = FALSE
    /\ activeButtons' = {}
    /\ UNCHANGED << host, paramVars, selectedImageIndices, operationQueue, currentOperation,
                    isProcessing, runs, targetsStarted >>

\* Promise.all rejected: only the files `decoded` (positions in the
\* submission, not all of them) decoded; what they decoded to is dropped.
LoadFailed(decoded) ==
    /\ ~MicrotaskPending
    /\ pendingLoads # << >>
    /\ decoded \subseteq 1..Head(pendingLoads).n
    /\ decoded # 1..Head(pendingLoads).n
    /\ pendingLoads' = Tail(pendingLoads)
    /\ messages' = << Msg("error", "Error loading some images", 0, NULL, 0, 0) >>
    /\ UNCHANGED << host, activeButtons, paramVars, loadedImages, heap, selectedImageIndices, operationQueue,
                    currentOperation, controlsActive, isProcessing, runs, targetsStarted >>

\* Ctrl+Shift+A: select all images.
SelectAllImages ==
    /\ ~MicrotaskPending
    /\ selectedImageIndices' = [i \in 1..Len(loadedImages) |-> i - 1]
    /\ heap' = [o \in ObjIds |->
                  IF o \in Range(loadedImages) THEN [heap[o] EXCEPT !.selected = TRUE]
                  ELSE heap[o]]
    /\ runs' = Unalias(runs, TRUE, FALSE)
    /\ messages' = << >>
    /\ UNCHANGED << host, activeButtons, paramVars, loadedImages, operationQueue, currentOperation, controlsActive,
                    isProcessing, pendingLoads, targetsStarted >>

\* Ctrl+Shift+D: deselect all images.
DeselectAllImages ==
    /\ ~MicrotaskPending
    /\ selectedImageIndices' = << >>
    /\ heap' = [o \in ObjIds |->
                  IF o \in Range(loadedImages) THEN [heap[o] EXCEPT !.selected = FALSE]
                  ELSE heap[o]]
    /\ runs' = Unalias(runs, TRUE, FALSE)
    /\ messages' = << >>
    /\ UNCHANGED << host, activeButtons, paramVars, loadedImages, operationQueue, currentOperation, controlsActive,
                    isProcessing, pendingLoads, targetsStarted >>

\* The "clear all" button.
ClearAllImages ==
    /\ ~MicrotaskPending
    /\ loadedImages' = << >>
    /\ selectedImageIndices' = << >>
    /\ currentOperation' = NULL
    /\ operationQueue' = << >>
    /\ controlsActive' = FALSE
    /\ heap' = Collect(heap, << >>, runs)
    /\ runs' = Unalias(runs, TRUE, TRUE)
    /\ messages' = << Msg("success", "All images cleared", 0, NULL, 0, 0) >>
    /\ activeButtons' = {}
    /\ UNCHANGED << host, paramVars, isProcessing, pendingLoads, targetsStarted >>

\* ------------------------------------------------------- image selection
\* toggleImageSelection(index) on an image whose selected flag is `flag`: the
\* new flag and the new selectedImageIndices (a push on the same array when
\* the image becomes selected, a new filtered array otherwise).
ToggleResult(selected, flag, index) ==
    IF ~flag
    THEN [selected |-> TRUE, indices |-> Append(selected, index)]
    ELSE [selected |-> FALSE, indices |-> FilterOut(selected, index)]

\* A push on the array a run iterates is seen by the run's for-of.
Repush(rs, indices) ==
    [r \in RunIds |->
        IF rs[r].idxAlias THEN [rs[r] EXCEPT !.indices = indices] ELSE rs[r]]

\* A click on the card of the image at position `index` (0-based).
ToggleImageSelection(index) ==
    /\ ~MicrotaskPending
    /\ index < Len(loadedImages)
    /\ LET o == loadedImages[index + 1]
           res == ToggleResult(selectedImageIndices, heap[o].selected, index)
       IN /\ heap' = [heap EXCEPT ![o].selected = res.selected]
          /\ selectedImageIndices' = res.indices
          /\ runs' = IF res.selected THEN Repush(runs, res.indices)
                     ELSE Unalias(runs, TRUE, FALSE)
    /\ messages' = << >>
    /\ UNCHANGED << host, activeButtons, paramVars, loadedImages, operationQueue, currentOperation,
                    controlsActive, isProcessing, pendingLoads, targetsStarted >>

\* array.splice(index, 1) (0-based; nothing is removed past the end).
Splice(seq, index) ==
    IF index >= Len(seq) THEN seq
    ELSE [k \in 1..(Len(seq) - 1) |-> IF k <= index THEN seq[k] ELSE seq[k + 1]]

\* selectedImageIndices.filter(i => i !== index).map(i => i > index ? i - 1 : i)
Reindex(selected, index) ==
    LET kept == FilterOut(selected, index)
    IN [k \in 1..Len(kept) |-> IF kept[k] > index THEN kept[k] - 1 ELSE kept[k]]

\* Variant: the positions that follow the removed one are not shifted.
RemoveSingleKeepsPositions(loaded, selected, index) ==
    [loaded |-> Splice(loaded, index),
     selected |-> FilterOut(selected, index),
     threw |-> index >= Len(loaded)]

\* removeSingle(index): the registry and the selection after it; without an
\* image at `index` the toast's removedImage.name throws after both updates.
RemoveSingleResult(loaded, selected, index) ==
    [loaded |-> Splice(loaded, index),
     selected |-> Reindex(selected, index),
     threw |-> index >= Len(loaded)]

RemovedMsg(name) == Msg("success", "Removed", name, NULL, 0, 0)

\* A click on the remove button of the card at position `index`.
RemoveSingle(index) ==
    /\ ~MicrotaskPending
    /\ index < Len(loadedImages)
    /\ LET res == RemoveSingleResult(loadedImages, selectedImageIndices, index) IN
        /\ loadedImages' = res.loaded
        /\ selectedImageIndices' = res.selected
        /\ heap' = Collect(heap, res.loaded, runs)
    /\ runs' = Unalias(runs, TRUE, FALSE)
    /\ messages' = << RemovedMsg(heap[loadedImages[index + 1]].name) >>
    /\ UNCHANGED << host, activeButtons, paramVars, operationQueue, currentOperation, controlsActive,
                    isProcessing, pendingLoads, targetsStarted >>

\* [...array].sort((a, b) => b - a)
RECURSIVE InsertDesc(_, _)
InsertDesc(sorted, v) ==
    IF sorted = << >> THEN << v >>
    ELSE IF v >= Head(sorted) THEN << v >> \o sorted
    ELSE << Head(sorted) >> \o InsertDesc(Tail(sorted), v)

RECURSIVE SortDesc(_)
SortDesc(seq) ==
    IF seq = << >> THEN << >> ELSE InsertDesc(SortDesc(Tail(seq)), Head(seq))

\* indicesToRemove.forEach(index => removeSingle(index)) on st = [loaded,
\* selected, names, threw]: an exception of removeSingle ends the forEach.
RECURSIVE RemoveEach(_, _, _)
RemoveEach(st, h, indices) ==
    IF indices = << >> \/ st.threw THEN st
    ELSE LET index == Head(indices)
             res == RemoveSingleResult(st.loaded, st.selected, index)
         IN RemoveEach([loaded |-> res.loaded, selected |-> res.selected,
                        names |-> IF res.threw THEN st.names
                                  ELSE Append(st.names, h[st.loaded[index + 1]].name),
                        threw |-> res.threw],
                       h, Tail(indices))

\* Ctrl+Delete / Ctrl+Backspace: the selected images are removed, highest
\* position first.
DeleteSelected ==
    /\ ~MicrotaskPending
    /\ Len(selectedImageIndices) > 0
    /\ LET st == RemoveEach([loaded |-> loadedImages, selected |-> selectedImageIndices,
                             names |-> << >>, threw |-> FALSE],
                            heap, SortDesc(selectedImageIndices))
       IN /\ loadedImages' = st.loaded
          /\ selectedImageIndices' = st.selected
          /\ heap' = Collect(heap, st.loaded, runs)
          /\ messages' = [k \in 1..Len(st.names) |-> RemovedMsg(st.names[k])]
    /\ runs' = Unalias(runs, TRUE, FALSE)
    /\ UNCHANGED << host, activeButtons, paramVars, operationQueue, currentOperation, controlsActive,
                    isProcessing, pendingLoads, targetsStarted >>

\* A drop of n files while an earlier load is still decoding: the handler has
\* no guard on a pending load.  The earlier loads are now superseded.
LoadStartOverlap(n) ==
    /\ ~MicrotaskPending
    /\ pendingLoads # << >>
    /\ Len(pendingLoads) < MaxPending
    /\ \A r \in RunIds : runs[r].pc = "idle"
    /\ loadedImages' = << >>
    /\ selectedImageIndices' = << >>
    /\ heap' = Collect(heap, << >>, runs)
    /\ runs' = Unalias(runs, TRUE, FALSE)
    /\ pendingLoads' = Append([k \in 1..Len(pendingLoads) |->
                                  [pendingLoads[k] EXCEPT !.superseded = TRUE]],
                               PendingLoad(n, loadedImages, selectedImageIndices))
    /\ messages' = << >>
    /\ UNCHANGED << host, activeButtons, paramVars, operationQueue, currentOperation, controlsActive, isProcessing,
                    targetsStarted >>

\* The Promise.all of the k-th pending load resolves (loads complete in any
\* order): its images become the registry.
LoadDoneAt(k) ==
    /\ ~MicrotaskPending
    /\ k <= Len(pendingLoads)
    /\ LET n == pendingLoads[k].n
           held == {o \in ObjIds : \E r \in RunIds : runs[r].pc # "idle" /\ runs[r].image = o}
           ids == FreshIds(held, n, 1)
           h == Collect(heap, << >>, runs)
       IN /\ loadedImages' = ids
          /\ heap' = [o \in ObjIds |-> IF o \in Range(ids) THEN NewImage(o) ELSE h[o]]
          /\ messages' = << Msg("success", "Successfully loaded images!", 0, NULL, n, 0) >>
    /\ pendingLoads' = Splice(pendingLoads, k - 1)
    /\ controlsActive' = FALSE
    /\ activeButtons' = {}
    /\ UNCHANGED << host, paramVars, selectedImageIndices, operationQueue, currentOperation,
                    isProcessing, runs, targetsStarted >>

\* ------------------------------------------------------ batch dispatcher
\* The operations a run started now would apply: the queue when it holds
\* more than one operation, else the active operation.
RunOps == IF Len(operationQueue) > 1 THEN operationQueue ELSE << currentOperation >>

\* A step of a run works on w = [heap, run, msgs, isProcessing] and reads the
\* globals it does not write (loadedImages, operationQueue, currentOperation).

\* Variant: compare-dimensions is sent without looking for a grayscale result.
IssueCallUnchecked(w, url, op, target) ==
    [w EXCEPT !.run = [@ EXCEPT !.callOp = op, !.callInput = SplitComma(url),
                                !.callTarget = target, !.pc = "await",
                                !.calls = Append(@, [op |-> op, input |-> SplitComma(url),
                                                     angle |-> FormAngle(op, rotateSlider),
                                                     status |-> "inflight",
                                                     output |-> NoPayload])]]

\* processSingleImage up to its first suspension: the precondition of
\* compare-dimensions throws into the function's own catch (the promise is
\* already settled, its continuation a microtask), otherwise the request is
\* sent.  `target` is the object passed as `image` (0: the chain's temporary).
IssueCall(w, url, op, target) ==
    LET gray == IF target = 0 THEN NoPayload ELSE w.heap[target].grayscaleData
        r1 == [w.run EXCEPT !.callOp = op, !.callInput = SplitComma(url),
                            !.callTarget = target]
    IN IF op = "compare-dimensions" /\ gray = NoPayload
       THEN [w EXCEPT !.run = [r1 EXCEPT !.pc = "resolved"]]
       ELSE [w EXCEPT !.run = [r1 EXCEPT !.pc = "await",
                 !.calls = Append(@, [op |-> op, input |-> SplitComma(url),
                                      angle |-> FormAngle(op, rotateSlider),
                                      status |-> "inflight", output |-> NoPayload])]]

\* The loop is over: the tally, then finally.
FinishRun(w) ==
    [w EXCEPT !.msgs = Append(@, Msg("success", "Processing complete! n/m images processed successfully.",
                                     0, NULL, w.run.processed, w.run.total)),
              !.isProcessing = FALSE,
              !.run = [IdleRun EXCEPT !.succeeded = w.run.succeeded]]

\* loadedImages[index] is undefined: the TypeError of image.processing = true
\* reaches the outer catch, then finally.
AbortRun(w) ==
    [w EXCEPT !.msgs = Append(@, Msg("error", "Batch processing failed", 0, NULL, 0, 0)),
              !.isProcessing = FALSE,
              !.run = IdleRun]

\* The input of a single-operation call: the object passed is the image itself.
SingleInput(image) == image.src

\* The input of the first call of a chain.
ChainInput(image) == OrElse(image.processedSrc, image.src)

\* The head of the for-of over the targets, up to the first suspension.
LoopHead(w) ==
    IF w.run.pos > Len(w.run.indices) THEN FinishRun(w)
    ELSE LET index == w.run.indices[w.run.pos] IN
         IF index >= Len(loadedImages) THEN AbortRun(w)
         ELSE LET o == loadedImages[index + 1]
                  image == w.heap[o]
                  h1 == [w.heap EXCEPT ![o].processing = TRUE]
                  r0 == [w.run EXCEPT !.image = o,
                            !.snap = Committed(image),
                            !.calls = << >>]
              IN IF Len(operationQueue) > 1
                 THEN IssueCall([w EXCEPT !.heap = h1,
                                   !.run = [r0 EXCEPT !.multi = TRUE,
                                              !.ops = operationQueue,
                                              !.opsAlias = TRUE,
                                              !.opPos = 1,
                                              !.currentSrc = ChainInput(image),
                                              !.operationsApplied = << >>]],
                                ChainInput(image), operationQueue[1], 0)
                 ELSE IssueCall([w EXCEPT !.heap = h1,
                                   !.run = [r0 EXCEPT !.multi = FALSE,
                                              !.ops = << >>,
                                              !.opsAlias = FALSE,
                                              !.opPos = 0,
                                              !.currentSrc = NullUrl,
                                              !.operationsApplied = << >>]],
                                SingleInput(image), currentOperation, o)

\* Variant: the end of an iteration leaves the processing flag as it is.
EndImageKeepsFlag(w, ok) ==
    LoopHead([w EXCEPT !.run = [@ EXCEPT !.processed = @ + 1,
                                         !.succeeded = IF ok THEN @ + 1 ELSE @,
                                         !.pos = @ + 1,
                                         !.opsAlias = FALSE]])

\* The end of an image's iteration, then the next one.
EndImage(w, ok) ==
    LET o == w.run.image IN
    LoopHead([w EXCEPT !.heap = [@ EXCEPT ![o].processing = FALSE],
                       !.run = [@ EXCEPT !.processed = @ + 1,
                                         !.succeeded = IF ok THEN @ + 1 ELSE @,
                                         !.pos = @ + 1,
                                         !.opsAlias = FALSE]])

\* Variant: a failure ends the whole run.
FailedAborts(w, msg) == AbortRun([w EXCEPT !.msgs = Append(@, msg)])

\* The inner catch: the error is shown and the loop goes on.
Failed(w, msg) == EndImage([w EXCEPT !.msgs = Append(@, msg)], FALSE)

\* Variant: every step of a chain writes its result to the image.
ChainStepWritePartial(image, currentSrc, applied) ==
    [image EXCEPT !.processedSrc = currentSrc,
                  !.processed = TRUE,
                  !.lastOperation = Join(applied)]

\* What a step of a chain that succeeded writes to the image: nothing.
ChainStepWrite(image, currentSrc, applied) == image

\* What a chain that succeeded as a whole writes to the image.
ChainCommit(image, currentSrc, applied) ==
    [image EXCEPT !.processedSrc = currentSrc,
                  !.processed = TRUE,
                  !.lastOperation = Join(applied)]

\* What a single operation that succeeded writes to the image.
SingleCommit(image, processedImage, current) ==
    [image EXCEPT !.processedSrc = processedImage,
                  !.processed = TRUE,
                  !.lastOperation = current]

\* The index of the next operation of the chain (1-based), past the end when
\* the iterator is exhausted.
NextOp(opPos) == opPos + 1

\* Variant: every call of a chain is made on the chain's first input.
NextInputOriginal(currentSrc, out) == currentSrc

\* The chain's input for the next call after a step that returned `out`.
NextInput(currentSrc, out) == out

\* The continuation of `await processSingleImage(...)` in the chain.
ChainResult(w, success, out) ==
    LET o == w.run.image
        op == w.run.callOp
    IN IF success
       THEN LET src == NextInput(w.run.currentSrc, out)
                applied == Append(w.run.operationsApplied, op)
                k == NextOp(w.run.opPos)
                w1 == [w EXCEPT !.run = [@ EXCEPT !.currentSrc = src,
                                                  !.operationsApplied = applied,
                                                  !.opPos = k],
                                !.heap = [@ EXCEPT ![o] = ChainStepWrite(@, src, applied)]]
            IN IF k <= Len(w.run.ops)
               THEN IssueCall(w1, src, w.run.ops[k], 0)
               ELSE EndImage([w1 EXCEPT !.heap = [@ EXCEPT ![o] = ChainCommit(@, src, applied)]],
                             TRUE)
       ELSE Failed(w, Msg("error", "Error processing: Failed at operation",
                          w.heap[o].name, op, 0, 0))

\* The continuation of `await processSingleImage(image, currentOperation)`.
SingleResult(w, success, out) ==
    LET o == w.run.image IN
    IF success
    THEN EndImage([w EXCEPT !.heap = [@ EXCEPT ![o] = SingleCommit(@, out, currentOperation)]],
                  TRUE)
    ELSE Failed(w, Msg("error", "Error processing", w.heap[o].name, w.run.callOp, 0, 0))

\* processSingleImage after the response: grayscale keeps its result on the
\* object it was passed, every operation returns a PNG data URL.
Respond(w, ok) ==
    LET run == w.run
        payload == RemoteApply(run.callInput, run.callOp)
        logged == [run EXCEPT !.calls[Len(run.calls)].status = IF ok THEN "ok" ELSE "failed",
                              !.calls[Len(run.calls)].output = IF ok THEN payload ELSE NoPayload]
        h1 == IF ok /\ run.callOp = "grayscale" /\ run.callTarget # 0
              THEN [w.heap EXCEPT ![run.callTarget].grayscaleData = payload]
              ELSE w.heap
        w1 == [w EXCEPT !.run = logged, !.heap = h1]
        out == IF ok THEN DataUrl("image/png", payload) ELSE NullUrl
    IN IF run.multi THEN ChainResult(w1, ok, out) ELSE SingleResult(w1, ok, out)

\* `${undefined}`: the payload of the data URL built from a body that has no
\* processed_image field.
UndefinedImage == [orig |-> 0, ops |-> << "undefined" >>]

\* processSingleImage after a response with a success status whose body is
\* JSON without the fields of a result: the visualisations of the exclusive
\* operations read fields of missing objects (a TypeError, caught), the other
\* operations build a data URL from the missing field and return success.
RespondEmpty(w) ==
    LET run == w.run IN
    IF run.callOp \in excludedFromQueue THEN Respond(w, FALSE)
    ELSE LET logged == [run EXCEPT !.calls[Len(run.calls)].status = "ok",
                                   !.calls[Len(run.calls)].output = UndefinedImage]
             h1 == IF run.callOp = "grayscale" /\ run.callTarget # 0
                   THEN [w.heap EXCEPT ![run.callTarget].grayscaleData = NoPayload]
                   ELSE w.heap
             w1 == [w EXCEPT !.run = logged, !.heap = h1]
             out == DataUrl("image/png", UndefinedImage)
         IN IF run.multi THEN ChainResult(w1, TRUE, out) ELSE SingleResult(w1, TRUE, out)

World(r) == [heap |-> heap, run |-> runs[r], msgs |-> << >>, isProcessing |-> isProcessing]

\* Write a step's result back.
Commit(r, w) ==
    /\ runs' = [runs EXCEPT ![r] = w.run]
    /\ heap' = Collect(w.heap, loadedImages, [runs EXCEPT ![r] = w.run])
    /\ messages' = w.msgs
    /\ isProcessing' = w.isProcessing

\* No run is suspended (Spec: the user starts a run when none is in flight).
NoRunInFlight == \A r \in RunIds : runs[r].pc = "idle"

\* Variant: a run starts whatever is selected.
StartRunUnchecked(r, indices, alias) ==
    /\ targetsStarted + Len(indices) <= MaxTargets
    /\ targetsStarted' = targetsStarted + Len(indices)
    /\ Commit(r, LoopHead([World(r) EXCEPT
           !.isProcessing = TRUE,
           !.run = [IdleRun EXCEPT !.indices = indices, !.idxAlias = alias,
                                   !.total = Len(indices),
                                   !.before = [o \in ObjIds |-> Committed(heap[o])],
                                   !.targets = SelectedImages(loadedImages, indices)]]))

\* processSelectedImages(imageIndices) from its first line to its first
\* suspension; `alias` says that the targets are the selectedImageIndices array.
StartRun(r, indices, alias) ==
    IF currentOperation = NULL /\ Len(operationQueue) = 0
    THEN /\ messages' = << Msg("error", "Please select an operation first!", 0, NULL, 0, 0) >>
         /\ UNCHANGED << runs, heap, isProcessing, targetsStarted >>
    ELSE IF Len(indices) = 0
    THEN /\ messages' = << Msg("error", "Please select images to process!", 0, NULL, 0, 0) >>
         /\ UNCHANGED << runs, heap, isProcessing, targetsStarted >>
    ELSE /\ targetsStarted + Len(indices) <= MaxTargets
         /\ targetsStarted' = targetsStarted + Len(indices)
         /\ Commit(r, LoopHead([World(r) EXCEPT
                !.isProcessing = TRUE,
                !.run = [IdleRun EXCEPT !.indices = indices, !.idxAlias = alias,
                                        !.total = Len(indices),
                                        !.before = [o \in ObjIds |-> Committed(heap[o])],
                                        !.targets = SelectedImages(loadedImages, indices)]]))

\* The lowest free slot.
FreeSlot(r) == runs[r].pc = "idle" /\ \A s \in RunIds : s < r => runs[s].pc # "idle"

\* "Process Selected Images" in the controls panel, or Ctrl+P with an active
\* operation.
ProcessSelectedImages(r) ==
    /\ ~MicrotaskPending
    /\ NoRunInFlight
    /\ FreeSlot(r)
    /\ controlsActive \/ currentOperation # NULL
    /\ StartRun(r, selectedImageIndices, TRUE)
    /\ UNCHANGED << host, activeButtons, paramVars, loadedImages, selectedImageIndices, operationQueue,
                    currentOperation, controlsActive, pendingLoads >>

\* "Process All Images".
ProcessAllImages(r) ==
    /\ ~MicrotaskPending
    /\ NoRunInFlight
    /\ FreeSlot(r)
    /\ IF currentOperation = NULL
       THEN /\ messages' = << Msg("error", "Please select an operation first!", 0, NULL, 0, 0) >>
            /\ UNCHANGED << runs, heap, isProcessing, targetsStarted >>
       ELSE IF Len(loadedImages) = 0
       THEN /\ messages' = << Msg("error", "No images to process!", 0, NULL, 0, 0) >>
            /\ UNCHANGED << runs, heap, isProcessing, targetsStarted >>
       ELSE StartRun(r, [i \in 1..Len(loadedImages) |-> i - 1], FALSE)
    /\ UNCHANGED << host, activeButtons, paramVars, loadedImages, selectedImageIndices, operationQueue,
                    currentOperation, controlsActive, pendingLoads >>

\* The remote call of run r returns: a result, or a transport error, a
\* non-success status or a malformed body, all of which end in the catch.
RemoteReturns(r, ok) ==
    /\ ~MicrotaskPending
    /\ runs[r].pc = "await"
    /\ Commit(r, Respond(World(r), ok))
    /\ UNCHANGED << host, activeButtons, paramVars, loadedImages, selectedImageIndices, operationQueue,
                    currentOperation, controlsActive, pendingLoads, targetsStarted >>

\* The microtask of a call that failed its precondition runs.
PreconditionFailed(r) ==
    /\ runs[r].pc = "resolved"
    /\ LET w == World(r) IN
       Commit(r, IF w.run.multi THEN ChainResult(w, FALSE, NullUrl)
                 ELSE SingleResult(w, FALSE, NullUrl))
    /\ UNCHANGED << host, activeButtons, paramVars, loadedImages, selectedImageIndices, operationQueue,
                    currentOperation, controlsActive, pendingLoads, targetsStarted >>

\* The remote call of run r returns a success status and a JSON body that is
\* not a result (hsv-convert then waits for images that never load).
RemoteReturnsEmpty(r) ==
    /\ ~MicrotaskPending
    /\ runs[r].pc = "await"
    /\ runs[r].callOp # "hsv-convert"
    /\ Commit(r, RespondEmpty(World(r)))
    /\ UNCHANGED << host, activeButtons, paramVars, loadedImages, selectedImageIndices, operationQueue,
                    currentOperation, controlsActive, pendingLoads, targetsStarted >>

\* The operations whose result is drawn from channel images the client
\* decodes before it returns.
ChannelOperations == {"rgb-channels", "hsv-convert"}

\* processSingleImage after a result of a channel operation one of whose
\* images does not decode: the promise of that image has no onerror and never
\* settles, so `await Promise.all(promises)` never returns.
RespondUndecodable(w) ==
    LET run == w.run
        payload == RemoteApply(run.callInput, run.callOp)
    IN [w EXCEPT !.run = [run EXCEPT !.pc = "decoding",
                                     !.calls[Len(run.calls)].status = "ok",
                                     !.calls[Len(run.calls)].output = payload]]

\* The remote call of run r returns the result of a channel operation with an
\* image that cannot be decoded.
RemoteReturnsUndecodable(r) ==
    /\ ~MicrotaskPending
    /\ runs[r].pc = "await"
    /\ runs[r].callOp \in ChannelOperations
    /\ Commit(r, RespondUndecodable(World(r)))
    /\ UNCHANGED << host, activeButtons, paramVars, loadedImages, selectedImageIndices, operationQueue,
                    currentOperation, controlsActive, pendingLoads, targetsStarted >>

\* "Process Selected Images" or Ctrl+P while a run is suspended at a remote
\* call: the handler has no guard on isProcessing.
ProcessSelectedImagesOverlap(r) ==
    /\ ~MicrotaskPending
    /\ ~NoRunInFlight
    /\ FreeSlot(r)
    /\ controlsActive \/ currentOperation # NULL
    /\ StartRun(r, selectedImageIndices, TRUE)
    /\ UNCHANGED << host, activeButtons, paramVars, loadedImages, selectedImageIndices, operationQueue,
                    currentOperation, controlsActive, pendingLoads >>

\* "Process All Images" while a run is suspended at a remote call.
ProcessAllImagesOverlap(r) ==
    /\ ~MicrotaskPending
    /\ ~NoRunInFlight
    /\ FreeSlot(r)
    /\ IF currentOperation = NULL
       THEN /\ messages' = << Msg("error", "Please select an operation first!", 0, NULL, 0, 0) >>
            /\ UNCHANGED << runs, heap, isProcessing, targetsStarted >>
       ELSE IF Len(loadedImages) = 0
       THEN /\ messages' = << Msg("error", "No images to process!", 0, NULL, 0, 0) >>
            /\ UNCHANGED << runs, heap, isProcessing, targetsStarted >>
       ELSE StartRun(r, [i \in 1..Len(loadedImages) |-> i - 1], FALSE)
    /\ UNCHANGED << host, activeButtons, paramVars, loadedImages, selectedImageIndices, operationQueue,
                    currentOperation, controlsActive, pendingLoads >>

\* ------------------------------------------------------- specification
Next ==
    \/ \E op \in Buttons : SelectOperation(op)
    \/ \E op \in Buttons : RemoveFromQueue(op)
    \/ ClearOperationQueue
    \/ CloseControls
    \/ \E n \in 1..MaxFiles : LoadStart(n)
    \/ LoadDone
    \/ \E decoded \in SUBSET (1..MaxFiles) : LoadFailed(decoded)
    \/ SelectAllImages
    \/ DeselectAllImages
    \/ ClearAllImages
    \/ \E r \in RunIds : ProcessSelectedImages(r)
    \/ \E r \in RunIds : ProcessAllImages(r)
    \/ \E r \in RunIds, ok \in BOOLEAN : RemoteReturns(r, ok)
    \/ \E r \in RunIds : PreconditionFailed(r)

Spec == Init /\ [][Next]_vars

\* The same program when the user also starts runs while one is in flight.
NextOverlap ==
    \/ Next
    \/ \E r \in RunIds : ProcessSelectedImagesOverlap(r)
    \/ \E r \in RunIds : ProcessAllImagesOverlap(r)

SpecOverlap == Init /\ [][NextOverlap]_vars

\* The same program with a remote service that also answers with bodies that
\* are not results.
NextResponses ==
    \/ Next
    \/ \E r \in RunIds : RemoteReturnsEmpty(r)

SpecResponses == Init /\ [][NextResponses]_vars

\* A user who loads images, selects operations, moves the rotation slider and
\* processes all images.
NextParams ==
    \/ \E op \in Buttons : SelectOperation(op)
    \/ \E v \in Angles : SetRotateSlider(v)
    \/ \E a \in Angles : LoadParametersTimer(a)
    \/ \E n \in 1..MaxFiles : LoadStart(n)
    \/ LoadDone
    \/ \E r \in RunIds : ProcessAllImages(r)
    \/ \E r \in RunIds, ok \in BOOLEAN : RemoteReturns(r, ok)
    \/ \E r \in RunIds : PreconditionFailed(r)

SpecParams == Init /\ [][NextParams]_vars

\* A load into an empty registry.
LoadWhenEmpty(n) == loadedImages = << >> /\ LoadStart(n)

\* A drop of files while a load is decoding and none has completed.
DropWhilePending(n) == loadedImages = << >> /\ LoadStartOverlap(n)

\* A user who loads images into an empty registry, drops further files before
\* a load has finished, and selects and removes images.
NextRegistry ==
    \/ \E n \in 1..MaxFiles : LoadWhenEmpty(n)
    \/ \E n \in 1..MaxFiles : DropWhilePending(n)
    \/ \E k \in 1..MaxPending : LoadDoneAt(k)
    \/ \E index \in 0..(MaxFiles - 1) : ToggleImageSelection(index)
    \/ \E index \in 0..(MaxFiles - 1) : RemoveSingle(index)
    \/ DeleteSelected
    \/ SelectAllImages
    \/ DeselectAllImages
    \/ ClearAllImages

SpecRegistry == Init /\ [][NextRegistry]_vars

\* A click on a card while no run is in flight.
ToggleBeforeRun(index) == NoRunInFlight /\ ToggleImageSelection(index)

\* A click on a remove button while a run is suspended at a remote call.
RemoveDuringRun(index) == ~NoRunInFlight /\ RemoveSingle(index)

\* A user who loads images into an empty registry, selects some of them,
\* processes the selection with rotate and removes images while the run is
\* suspended.
NextRemoval ==
    \/ \E n \in 1..MaxBatch : LoadWhenEmpty(n)
    \/ LoadDone
    \/ \E index \in 0..(MaxBatch - 1) : ToggleBeforeRun(index)
    \/ \E index \in 0..(MaxBatch - 1) : RemoveDuringRun(index)
    \/ SelectOperation("rotate")
    \/ \E r \in RunIds : ProcessSelectedImages(r)
    \/ \E r \in RunIds, ok \in BOOLEAN : RemoteReturns(r, ok)

SpecRemoval == Init /\ [][NextRemoval]_vars

\* A user who loads images, selects a channel operation or rotate and
\* processes all images; every remote call returns, with a result (whose
\* images decode or not) or an error, and every continuation runs.
NextChannels ==
    \/ \E op \in ChannelOperations \cup {"rotate"} : SelectOperation(op)
    \/ \E n \in 1..MaxFiles : LoadStart(n)
    \/ LoadDone
    \/ \E r \in RunIds : ProcessAllImages(r)
    \/ \E r \in RunIds, ok \in BOOLEAN : RemoteReturns(r, ok)
    \/ \E r \in RunIds : RemoteReturnsUndecodable(r)

\* Every remote call in flight eventually returns.
CallReturns(r) ==
    \/ \E ok \in BOOLEAN : RemoteReturns(r, ok)
    \/ RemoteReturnsUndecodable(r)

SpecChannels ==
    /\ Init
    /\ [][NextChannels]_vars
    /\ \A r \in RunIds : WF_vars(CallReturns(r))

\* The operation buttons of a user who prepares compare-dimensions.
GrayscaleButtons == {"grayscale", "rotate", "compare-dimensions"}

\* A user who loads images, selects grayscale, rotate or compare-dimensions
\* and processes all images.
NextGrayscale ==
    \/ \E op \in GrayscaleButtons : SelectOperation(op)
    \/ \E n \in 1..MaxFiles : LoadStart(n)
    \/ LoadDone
    \/ \E r \in RunIds : ProcessAllImages(r)
    \/ \E r \in RunIds, ok \in BOOLEAN : RemoteReturns(r, ok)
    \/ \E r \in RunIds : PreconditionFailed(r)

SpecGrayscale == Init /\ [][NextGrayscale]_vars

\* ------------------------------------------------------------ host shell
\* main.js: the Electron main process.  host.mainWindow is the window's id
\* (0: null), host.windows the open windows (BrowserWindow.getAllWindows()),
\* host.backendProcess the child process handle (its command; null before
\* startBackend and after stopBackend), host.backendRunning whether the
\* spawned process runs, host.sent the last message sent to the window,
\* host.development whether NODE_ENV is 'development', host.devTools whether
\* the window's developer tools are open.
Platforms == {"darwin", "win32", "linux"}

\* The channels of the menu items that send to the window.
MenuChannels == {"menu-open-image", "menu-save-image", "menu-grayscale",
                 "menu-blur", "menu-edge-detection"}

rendererVars == << loadedImages, heap, selectedImageIndices, operationQueue,
                   currentOperation, controlsActive, isProcessing, pendingLoads,
                   runs, targetsStarted, messages, paramVars, activeButtons >>

\* process.platform === 'win32' ? 'python' : 'python3'
PythonExecutable(platform) == IF platform = "win32" THEN "python" ELSE "python3"

\* startBackend(): the backend is spawned and its handle kept.
StartBackend(h) ==
    [h EXCEPT !.backendProcess = PythonExecutable(h.platform),
              !.backendRunning = TRUE]

\* stopBackend(): the process is killed and the handle dropped, if there is
\* a handle.
StopBackend(h) ==
    IF h.backendProcess # NULL
    THEN [h EXCEPT !.backendRunning = FALSE, !.backendProcess = NULL]
    ELSE h

\* createWindow(): a new window becomes mainWindow.
CreateWindow(h) ==
    [h EXCEPT !.created = @ + 1,
              !.mainWindow = h.created + 1,
              !.windows = @ \cup {h.created + 1},
              !.sent = NULL,
              !.devTools = h.development]

\* app.quit(): before-quit stops the backend, the windows are closed (their
\* 'closed' handlers reset mainWindow) and the application ends;
\* window-all-closed is not emitted on this path.
AppQuit(h) ==
    [StopBackend(h) EXCEPT !.app = "quit", !.windows = {}, !.mainWindow = 0,
                           !.sent = NULL, !.devTools = FALSE]

\* The window-all-closed handler.
WindowAllClosed(h) ==
    LET stopped == StopBackend(h)
    IN IF h.platform # "darwin" THEN AppQuit(stopped) ELSE stopped

\* The activate handler: a window is created when none is open.
ActivateHandler(h) == IF h.windows = {} THEN CreateWindow(h) ELSE h

\* The application is launched on platform p, in development mode or not.
Launch(p, development) ==
    /\ host.app = "off"
    /\ host' = [host EXCEPT !.app = "starting", !.platform = p,
                            !.development = development]
    /\ UNCHANGED rendererVars

\* app.whenReady().then(...): the backend is started, the window created,
\* the menu and the activate handler installed.
WhenReady ==
    /\ host.app = "starting"
    /\ host' = [CreateWindow(StartBackend(host)) EXCEPT !.app = "ready"]
    /\ UNCHANGED rendererVars

\* The user closes window w: its 'closed' handler runs, then, for the last
\* window, the window-all-closed handler.
WindowClosed(w) ==
    /\ host.app = "ready"
    /\ w \in host.windows
    /\ LET closed == [host EXCEPT !.windows = @ \ {w}, !.mainWindow = 0,
                                  !.sent = NULL, !.devTools = FALSE]
       IN host' = IF closed.windows = {} THEN WindowAllClosed(closed) ELSE closed
    /\ UNCHANGED rendererVars

\* 'activate' (macOS: a click on the dock icon).
Activate ==
    /\ host.app = "ready"
    /\ host.platform = "darwin"
    /\ host.created < MaxWindows
    /\ host' = ActivateHandler(host)
    /\ UNCHANGED rendererVars

\* A click on a menu item that sends to the window (on macOS the menu bar is
\* there without a window): mainWindow.webContents.send(channel) throws when
\* mainWindow is null, and the uncaughtException handler stops the backend
\* and quits.
MenuSend(channel) ==
    /\ host.app = "ready"
    /\ host.windows # {} \/ host.platform = "darwin"
    /\ host' = IF host.mainWindow = 0 THEN AppQuit(StopBackend(host))
               ELSE [host EXCEPT !.sent = channel]
    /\ UNCHANGED rendererVars

\* View > Toggle Developer Tools (F12).
MenuToggleDevTools ==
    /\ host.app = "ready"
    /\ host.windows # {} \/ host.platform = "darwin"
    /\ host' = IF host.mainWindow = 0 THEN AppQuit(StopBackend(host))
               ELSE [host EXCEPT !.devTools = ~@]
    /\ UNCHANGED rendererVars

\* File > Exit, Cmd+Q or Ctrl+Q.
MenuExit ==
    /\ host.app = "ready"
    /\ host' = AppQuit(host)
    /\ UNCHANGED rendererVars

NextHost ==
    \/ \E p \in Platforms, development \in BOOLEAN : Launch(p, development)
    \/ WhenReady
    \/ \E w \in 1..MaxWindows : WindowClosed(w)
    \/ Activate
    \/ \E channel \in MenuChannels : MenuSend(channel)
    \/ MenuToggleDevTools
    \/ MenuExit

SpecHost == Init /\ [][NextHost]_vars

\* ================================================================ claims
\* The operations a run started after a handler's outcome would apply.
OutcomeOps(res) == IF Len(res.queue) > 1 THEN res.queue ELSE << res.current >>

NoDuplicates(seq) == \A i, j \in 1..Len(seq) : seq[i] = seq[j] => i = j

\* C4 (as stated): selecting an exclusive operation always leaves exactly
\* that operation to run, whatever the state before.
C4_ExclusiveAlwaysSingleton ==
    \A op \in excludedFromQueue :
        OutcomeOps(SelectOutcome(loadedImages, operationQueue, currentOperation, op)) = << op >>

\* C4 (amended): with at least one image loaded, selecting an exclusive
\* operation empties operationQueue and makes the operation the active one, so
\* that exactly that operation would run, whatever was queued or active before.
C4_ExclusiveSingletonWhenLoaded ==
    \A op \in excludedFromQueue :
        Len(loadedImages) > 0 =>
            LET res == SelectOutcome(loadedImages, operationQueue, currentOperation, op)
            IN /\ OutcomeOps(res) = << op >>
               /\ res.queue = << >>
               /\ res.current = op

\* C4 witness: an exclusive operation has just been selected over images.
C4_Witness ==
    /\ Len(loadedImages) > 0
    /\ currentOperation \in excludedFromQueue
    /\ operationQueue = << >>
    /\ messages = << SelectedMsg(currentOperation) >>

\* C5: the operations a run would apply are never a mix of an exclusive
\* operation with anything else: none of them is exclusive and none occurs
\* twice, or they are exactly one exclusive operation.
C5_NeverMixed ==
    \/ /\ \A i \in 1..Len(RunOps) : RunOps[i] \notin excludedFromQueue
       /\ NoDuplicates(RunOps)
    \/ /\ Len(RunOps) = 1
       /\ RunOps[1] \in excludedFromQueue

\* C5 witness: a queue of two operations is kept while a new load is pending.
C5_Witness ==
    /\ Len(operationQueue) = 2
    /\ pendingLoads # << >>

\* C6 (as stated): from a state in which a composable operation is not queued,
\* selecting it twice restores both the queue and the active operation.
C6_TogglePairRestores ==
    \A op \in Composable :
        ~Includes(operationQueue, op) =>
            LET once == SelectOutcome(loadedImages, operationQueue, currentOperation, op)
                twice == SelectOutcome(loadedImages, once.queue, once.current, op)
            IN /\ twice.queue = operationQueue
               /\ twice.current = currentOperation

\* C7 (as stated): the active operation is the last element of a non-empty
\* queue, an exclusive operation only with an empty queue, and none only when
\* nothing is queued.
C7_ActiveIsLast ==
    /\ Len(operationQueue) > 0 => currentOperation = operationQueue[Len(operationQueue)]
    /\ currentOperation \in excludedFromQueue => operationQueue = << >>
    /\ currentOperation = NULL => operationQueue = << >>

\* A step in which a call of run r ends in failure.
CallFails(r) == RemoteReturns(r, FALSE) \/ PreconditionFailed(r)

\* A step in which the last call for the current image of run r succeeds.
LastCallSucceeds(r) ==
    /\ RemoteReturns(r, TRUE)
    /\ runs[r].multi => runs[r].opPos >= Len(runs[r].ops)

TallyKind == "Processing complete! n/m images processed successfully."

ChainErrorKind == "Error processing: Failed at operation"

\* C1: no partial commit.  When a step of a chain (a queue of two or more
\* operations) fails, the image's processedSrc, processed flag and
\* lastOperation are what they were before the run, and an error naming the
\* image is shown.
C1_NoPartialCommit ==
    [][\A r \in RunIds :
          (runs[r].multi /\ CallFails(r)) =>
              LET o == runs[r].image IN
              /\ o \in Range(loadedImages) => Committed(heap'[o]) = runs[r].before[o]
              /\ \E i \in 1..Len(messages') :
                    /\ messages'[i].type = "error"
                    /\ messages'[i].img = heap[o].name]_vars

\* C1 witness: the second step of the chain rotate, flip has just failed for
\* a loaded image that an earlier run had processed: it is still processed.
C1_Witness ==
    /\ operationQueue = << "rotate", "flip" >>
    /\ \E i \in 1..Len(messages) : \E o \in Range(loadedImages) :
          /\ messages[i].kind = ChainErrorKind
          /\ messages[i].op = "flip"
          /\ messages[i].img = heap[o].name
          /\ heap[o].processed

\* C2 (as stated): the tally shown at the end of a run is (number of targets
\* whose whole chain succeeded, number of targets).
C2_TallyCountsSuccesses ==
    [][\A r \in RunIds :
          (runs[r].pc # "idle" /\ runs'[r].pc = "idle") =>
              \A i \in 1..Len(messages') :
                  messages'[i].kind = TallyKind =>
                      /\ messages'[i].n = runs'[r].succeeded
                      /\ messages'[i].m = runs[r].total]_vars

\* C3: failures are isolated.  When a call of a run fails and a later target
\* exists, the run goes on with that target and issues its first call; and a
\* target whose last call succeeds after an earlier target failed is
\* committed.
C3_FailureIsolated ==
    [][\A r \in RunIds :
          /\ CallFails(r) =>
                LET next == runs[r].pos + 1 IN
                (next <= Len(runs[r].indices)
                    /\ runs[r].indices[next] < Len(loadedImages)) =>
                        /\ runs'[r].pc \in {"await", "resolved"}
                        /\ runs'[r].pos = next
                        /\ runs'[r].image = loadedImages[runs[r].indices[next] + 1]
                        /\ heap'[runs'[r].image].processing
          /\ (LastCallSucceeds(r) /\ runs[r].processed > runs[r].succeeded
                /\ runs[r].image \in Range(loadedImages)) =>
                    /\ heap'[runs[r].image].processed
                    /\ heap'[runs[r].image].processedSrc =
                          DataUrl("image/png", RemoteApply(runs[r].callInput, runs[r].callOp))]_vars

\* C3 witness: a run over two images has ended; the first failed and is
\* unprocessed, the second is committed.
C3_Witness ==
    /\ Len(loadedImages) = 2
    /\ \E i \in 1..Len(messages) : messages[i].kind = TallyKind /\ messages[i].m = 2
    /\ ~heap[loadedImages[1]].processed
    /\ heap[loadedImages[2]].processed

\* C8 (as stated): the input of the first remote call for an image is its
\* processed output if it has one, else its original data, for a single
\* operation as for a chain.
C8_FirstInputIsLastOutput ==
    \A r \in RunIds :
        (runs[r].pc = "await" /\ Len(runs[r].calls) = 1) =>
            runs[r].calls[1].input =
                SplitComma(OrElse(runs[r].snap.processedSrc, heap[runs[r].image].src))

\* C9: the calls of a chain are issued in the order of the queue the run
\* iterates, one per operation, one at a time; each call's input is the output
\* of the call before it, and no call follows a call that failed.
C9_ChainInOrder ==
    \A r \in RunIds :
        (runs[r].pc # "idle" /\ runs[r].multi) =>
            LET c == runs[r].calls IN
            /\ Len(c) <= Len(runs[r].ops)
            /\ NoDuplicates([k \in 1..Len(c) |-> c[k].op])
            /\ \A k \in 1..Len(c) :
                  /\ c[k].op = runs[r].ops[k]
                  /\ k < Len(c) => /\ c[k].status = "ok"
                                   /\ c[k + 1].input = c[k].output
                  /\ c[k].status = "inflight" => (k = Len(c) /\ runs[r].pc = "await")
                  /\ (k = Len(c) /\ runs[r].pc = "await") => c[k].status = "inflight"

\* C9 witness: the second call of a chain is in flight.
C9_Witness ==
    \E r \in RunIds :
        /\ runs[r].pc = "await"
        /\ runs[r].multi
        /\ Len(runs[r].calls) = 2
        /\ runs[r].calls[2].input = RemoteApply(runs[r].calls[1].input, runs[r].ops[1])

\* C10 (as stated): when the last call for an image succeeds, the image gets
\* the output of that call, processed = true and the applied operations joined
\* by the arrow as lastOperation, for a queue of one operation as for a chain.
C10_CommitOnSuccess ==
    [][\A r \in RunIds :
          (LastCallSucceeds(r) /\ runs[r].image \in Range(loadedImages)) =>
              LET o == runs[r].image IN
              /\ heap'[o].processedSrc =
                    DataUrl("image/png", RemoteApply(runs[r].callInput, runs[r].callOp))
              /\ heap'[o].processed
              /\ heap'[o].lastOperation =
                    Join(Append(runs[r].operationsApplied, runs[r].callOp))]_vars

\* C11 (as stated): a load of N files of which K >= 1 decode ends with
\* exactly those K images in the registry, in submission order.
C11_LoadKeepsDecoded ==
    [][/\ \A decoded \in SUBSET (1..MaxFiles) :
            (LoadFailed(decoded) /\ decoded # {}) =>
                Len(loadedImages') = Cardinality(decoded)
       /\ LoadDone =>
            /\ Len(loadedImages') = Head(pendingLoads).n
            /\ \A i, j \in 1..Len(loadedImages') :
                  i < j => heap'[loadedImages'[i]].name < heap'[loadedImages'[j]].name]_vars

\* C12 (as stated): a load in which no file decodes leaves the registry and
\* the selection as they were before the call.
C12_FailedLoadKeepsRegistry ==
    [][LoadFailed({}) =>
          /\ loadedImages' = Head(pendingLoads).loaded
          /\ selectedImageIndices' = Head(pendingLoads).selected]_vars

\* C13 (as stated): no two runs ever have a chain in flight for the same
\* image.
C13_NoConcurrentDispatch ==
    \A r1, r2 \in RunIds :
        (r1 # r2 /\ runs[r1].pc # "idle" /\ runs[r2].pc # "idle") =>
            runs[r1].image # runs[r2].image

\* A step in which run r ends.
RunEnds(r) == runs[r].pc # "idle" /\ runs'[r].pc = "idle"

\* C14 (as stated): a run whose targets vanish while it is suspended skips
\* them silently: it ends with its tally and without a batch-level error.
C14_RunToleratesClear ==
    [][\A r \in RunIds :
          RunEnds(r) =>
              /\ \E i \in 1..Len(messages') : messages'[i].kind = TallyKind
              /\ \A i \in 1..Len(messages') : messages'[i].kind # "Batch processing failed"]_vars

\* A step of one of the handlers that start a run.
RunRequested(r) == ProcessSelectedImages(r) \/ ProcessAllImages(r)

NoOperationKind == "Please select an operation first!"

NoTargetsKinds == {"Please select images to process!", "No images to process!"}

FirstCallIssued(r) ==
    /\ runs'[r].pc = "await"
    /\ Len(runs'[r].calls) = 1
    /\ runs[r].pc = "idle" \/ runs[r].pos # runs'[r].pos

\* A step in which run r ends the iteration of its current image.
ImageEnds(r) ==
    /\ runs[r].pc # "idle"
    /\ runs'[r].pc = "idle" \/ runs'[r].pos # runs[r].pos

\* C16: a loaded image's processing flag is true only while a run is working
\* on it; the flag is true when the first call for the image is issued and
\* false when the image's iteration has ended, whatever the outcome, so no
\* image is left with the flag set once the runs have finished.
C16_ProcessingOnlyInFlight ==
    [][/\ \A o \in Range(loadedImages') :
            heap'[o].processing =>
                \E r \in RunIds : runs'[r].pc # "idle" /\ runs'[r].image = o
       /\ \A r \in RunIds :
            FirstCallIssued(r) => heap'[runs'[r].image].processing
       /\ \A r \in RunIds :
            (ImageEnds(r) /\ runs[r].image \in Range(loadedImages)) =>
                ~heap'[runs[r].image].processing]_vars

\* C16 witness: the first of two images has ended and is not flagged, the
\* second is flagged and its call is in flight.
C16_Witness ==
    /\ Len(loadedImages) = 2
    /\ ~heap[loadedImages[1]].processing
    /\ \E r \in RunIds :
          /\ runs[r].pc = "await"
          /\ runs[r].pos = 2
          /\ runs[r].image = loadedImages[2]
          /\ heap[loadedImages[2]].processing

\* C17 (as stated): a loaded image that is processed has a processedSrc and a
\* non-empty lastOperation.
C17_ProcessedHasOutput ==
    \A o \in Range(loadedImages) :
        heap[o].processed =>
            /\ heap[o].processedSrc # NullUrl
            /\ heap[o].lastOperation \notin {NULL, ""}

\* C18: compare-dimensions on an image without a recorded grayscale result
\* fails with an error for the image and without a remote call: no call for
\* compare-dimensions is ever in flight for such an image, and the failure
\* commits nothing.
C18_MissingPrecondition ==
    [][\A r \in RunIds :
          /\ (runs'[r].pc = "await" /\ runs'[r].callOp = "compare-dimensions") =>
                /\ runs'[r].callTarget # 0
                /\ heap'[runs'[r].callTarget].grayscaleData # NoPayload
          /\ PreconditionFailed(r) =>
                /\ runs[r].callOp = "compare-dimensions"
                /\ runs[r].calls = << >>
                /\ \E i \in 1..Len(messages') :
                      /\ messages'[i].type = "error"
                      /\ messages'[i].img = heap[runs[r].image].name
                      /\ messages'[i].op = "compare-dimensions"
                /\ runs[r].image \in Range(loadedImages) =>
                      Committed(heap'[runs[r].image]) = runs[r].snap]_vars

\* C18 witness: compare-dimensions has just failed for a loaded image.
C18_Witness ==
    /\ currentOperation = "compare-dimensions"
    /\ \E i \in 1..Len(messages) : \E o \in Range(loadedImages) :
          /\ messages[i].kind = "Error processing"
          /\ messages[i].op = "compare-dimensions"
          /\ messages[i].img = heap[o].name
          /\ heap[o].grayscaleData = NoPayload

\* C19 (as stated): for a transport failure, a non-success status, a
\* malformed response or a failed precondition the client returns a failure,
\* which the run reports as an error for the (still loaded) image without
\* committing.
C19_FailureIsReturned ==
    [][\A r \in RunIds :
          ((RemoteReturns(r, FALSE) \/ RemoteReturnsEmpty(r) \/ PreconditionFailed(r))
              /\ runs[r].image \in Range(loadedImages)) =>
              /\ \E i \in 1..Len(messages') :
                    /\ messages'[i].type = "error"
                    /\ messages'[i].img = heap[runs[r].image].name
              /\ Committed(heap'[runs[r].image]) = runs[r].snap]_vars

\* A step in which run r issues a call.
CallIssued(r) == runs'[r].pc = "await" /\ runs'[r].calls # runs[r].calls

\* C20 (as stated): every call for rotate, last in the queue or not, sends
\* the angle the user last set for rotate, the default only if none was set.
C20_OwnParameters ==
    [][\A r \in RunIds :
          CallIssued(r) =>
              LET c == runs'[r].calls[Len(runs'[r].calls)] IN
              c.op = "rotate" =>
                  c.angle = IF userAngle = 0 THEN DefaultAngle ELSE userAngle]_vars

\* C21 (as stated): toggling the selection of an image twice restores the
\* selected set and the image's selected flag, from any reachable state.
C21_ToggleTwiceRestores ==
    \A index \in 0..(Len(loadedImages) - 1) :
        LET flag == heap[loadedImages[index + 1]].selected
            once == ToggleResult(selectedImageIndices, flag, index)
            twice == ToggleResult(once.indices, once.selected, index)
        IN /\ twice.selected = flag
           /\ Range(twice.indices) = Range(selectedImageIndices)

\* C22 (as stated): selectedImageIndices has no duplicates, holds only valid
\* positions of loadedImages, and holds position i exactly when
\* loadedImages[i].selected is true.
C22_SelectionConsistent ==
    /\ NoDuplicates(selectedImageIndices)
    /\ \A k \in 1..Len(selectedImageIndices) : selectedImageIndices[k] < Len(loadedImages)
    /\ \A index \in 0..(Len(loadedImages) - 1) :
          Includes(selectedImageIndices, index) <=> heap[loadedImages[index + 1]].selected

\* removeSingle(index) took `loaded`, `selected` to `res`: the registry is the
\* other images in their order, the selection refers to the images it
\* referred to, less the removed one.
RemovalExact(loaded, selected, index, res) ==
    /\ res.loaded = SelectSeq(loaded, LAMBDA o : o # loaded[index + 1])
    /\ SelectedImages(res.loaded, res.selected) =
          SelectedImages(loaded, selected) \ {loaded[index + 1]}

\* Every removal of the bulk delete over `indices` is exact.
RECURSIVE EachRemovalExact(_, _, _)
EachRemovalExact(loaded, selected, indices) ==
    \/ indices = << >>
    \/ Head(indices) >= Len(loaded)
    \/ LET res == RemoveSingleResult(loaded, selected, Head(indices))
       IN /\ RemovalExact(loaded, selected, Head(indices), res)
          /\ EachRemovalExact(res.loaded, res.selected, Tail(indices))

C24_QueueIsDispatched ==
    [][\A r \in RunIds :
          (RunRequested(r) /\ Len(operationQueue) > 0) =>
              /\ \A i \in 1..Len(messages') : messages'[i].kind # NoOperationKind
              /\ runs'[r].pc # "idle" => runs'[r].callOp = operationQueue[1]]_vars

\* C25 (as stated): the image a run is working on is always one of the images
\* that were its targets when it started.
C25_OnlyOriginalTargets ==
    \A r \in RunIds :
        runs[r].pc # "idle" => runs[r].image \in runs[r].targets

\* C26 (as stated): when loads overlap, the load that completes last, the
\* one whose images the registry finally holds, is the one submitted last.
C26_LastSubmittedWins ==
    [][\A k \in 1..MaxPending :
          (LoadDoneAt(k) /\ Len(pendingLoads) = 1) => ~pendingLoads[k].superseded]_vars

\* C27 (as stated): every started run eventually finishes (isProcessing
\* becomes false again), provided every remote call eventually returns.
C27_RunTerminates == isProcessing ~> ~isProcessing

\* C28 (as stated): when a grayscale call succeeds for a loaded image, alone
\* or as a step of a chain, the image has a grayscale result recorded
\* afterwards.
C28_GrayscaleRecorded ==
    [][\A r \in RunIds :
          (RemoteReturns(r, TRUE) /\ runs[r].callOp = "grayscale"
              /\ runs[r].image \in Range(loadedImages)) =>
              heap'[runs[r].image].grayscaleData # NoPayload]_vars

\* The operations a run would apply, as a set: the queue's, or the exclusive
\* active operation.
OperationsToApply ==
    IF Len(operationQueue) > 0 THEN Range(operationQueue)
    ELSE IF currentOperation \in excludedFromQueue THEN {currentOperation}
    ELSE {}

\* C29 (as stated): the operation buttons shown as active are exactly the
\* operations a run would apply.
C29_ButtonsShowOperations == activeButtons = OperationsToApply

\* C30 (as stated): whenever a window is open the backend the shell spawned
\* is running and the shell holds its handle, on every platform.
C30_WindowHasBackend ==
    host.windows # {} => (host.backendProcess # NULL /\ host.backendRunning)

====
